---- MODULE Spec2Model ----
(***************************************************************************)
(* Model of Rust/src/common/samplesummary.rs: the SampleSummary aggregate, *)
(* the weighted statistics routines from_points / from_references, the     *)
(* order-statistic cursor pick, and the two public entry points summarize  *)
(* and multi_summarize_ref with their clustering collaborator.             *)
(*                                                                         *)
(* Numbers.  An input f32 (a coordinate or a weight) is a pair             *)
(* <<kind, value>> with kind "fin", "nan" or "inf"; once validation has    *)
(* passed every number is finite and is handled as an integer.  A fraction *)
(* or a cumulative-weight target is an exact rational <<num, den>> with    *)
(* den > 0, a quotient is a rational in lowest terms; rounding of finite   *)
(* values is not modelled.                                                 *)
(***************************************************************************)
EXTENDS Integers, Sequences, FiniteSets, TLC

VARIABLES pc, call, summary, result, clustering, y, targets, scan

vars == <<pc, call, summary, result, clustering, y, targets, scan>>

-----------------------------------------------------------------------------
(* f32 / f64 values *)

Fin(v) == <<"fin", v>>

NaN == <<"nan", 0>>

PosInf == <<"inf", 0>>

is_finite(x) == x[1] = "fin"

is_nan(x) == x[1] = "nan"

\* x > 0.0 on a float: false on NaN, true on +infinity
gt_zero(x) == (x[1] = "inf") \/ (x[1] = "fin" /\ x[2] > 0)

\* x >= 0.0 on a float: false on NaN
ge_zero(x) == (x[1] = "inf") \/ (x[1] = "fin" /\ x[2] >= 0)

\* a + b on floats (only +infinity is modelled)
fadd(a, b) ==
    IF is_nan(a) \/ is_nan(b) THEN NaN
    ELSE IF a[1] = "inf" \/ b[1] = "inf" THEN PosInf
    ELSE Fin(a[2] + b[2])

RECURSIVE GCD(_, _)
GCD(a, b) == IF b = 0 THEN a ELSE GCD(b, a % b)

Abs(n) == IF n < 0 THEN -n ELSE n

\* n / d for d > 0, in lowest terms
Ratio(n, d) ==
    LET g == GCD(Abs(n), d) IN <<n \div g, d \div g>>

\* a / b on finite f64 values with a >= 0, b >= 0: 0/0 is NaN, a/0 is +infinity
fdiv(a, b) ==
    IF b = 0 THEN (IF a = 0 THEN <<"nan", 0, 1>> ELSE <<"inf", 0, 1>>)
    ELSE <<"fin", Ratio(a, b)[1], Ratio(a, b)[2]>>

-----------------------------------------------------------------------------
(* SampleSummary::pick, lines 95-103.  weighted_points is a sequence of     *)
(* <<value, weight>> pairs of finite numbers, weight the target as a        *)
(* rational, start a 0-based index, initial_weight the running weight.      *)

RECURSIVE pick_loop(_, _, _, _)
pick_loop(weighted_points, weight, index, running) ==
    IF index + 1 < Len(weighted_points)
       /\ (weighted_points[index + 1][2] + running) * weight[2] < weight[1]
    THEN pick_loop(weighted_points, weight, index + 1,
                   running + weighted_points[index + 1][2])
    ELSE <<index, running>>

\* a slip: the accumulated weight is dropped
pick_forgets(weighted_points, weight, start, initial_weight) ==
    pick_loop(weighted_points, weight, start, 0)

\* a slip: <= in place of <
pick_inclusive(weighted_points, weight, start, initial_weight) ==
    LET RECURSIVE loop(_, _)
        loop(index, running) ==
            IF index + 1 < Len(weighted_points)
               /\ (weighted_points[index + 1][2] + running) * weight[2] <= weight[1]
            THEN loop(index + 1, running + weighted_points[index + 1][2])
            ELSE <<index, running>>
    IN loop(start, initial_weight)

pick(weighted_points, weight, start, initial_weight) ==
    pick_loop(weighted_points, weight, start, initial_weight)

\* lines 147-152 (and 208-213): the three chained calls on one sorted sequence
order_statistics(ys, lower, num, upper) ==
    LET first == pick(ys, lower, 0, 0)
        second == pick(ys, num, first[1], first[2])
        third == pick(ys, upper, second[1], second[2])
    IN [first |-> first, second |-> second, third |-> third,
        lower |-> ys[first[1] + 1][1],
        median |-> ys[second[1] + 1][1],
        upper |-> ys[third[1] + 1][1]]

-----------------------------------------------------------------------------
(* Results of the fallible functions: Ok(value), Err(message), or a panic   *)
(* that unwinds out of the call.                                            *)

Ok(v) == [kind |-> "Ok", error |-> "", value |-> <<v>>]

Err(msg) == [kind |-> "Err", error |-> msg, value |-> <<>>]

Panic(msg) == [kind |-> "Panic", error |-> msg, value |-> <<>>]

NoResult == [kind |-> "None", error |-> "", value |-> <<>>]

\* the messages handed to check_argument, lines 109-126
MsgEmpty == "cannot be empty list"

MsgLower == " has to be less than half"

MsgUpper == "has to be larger than half"

MsgDimensions == " cannot have 0 dimensions"

MsgAllZero == "weights cannot be all zero"

MsgInfinite == " cannot have infinite weights"

MsgNegative == "point weights have to be non-negative"

MsgCoordinate == " cannot have NaN or infinite values"

-----------------------------------------------------------------------------
(* SampleSummary::from_points, lines 106-165, and from_references, lines    *)
(* 167-226, whose bodies are the same line for line.  points is a sequence  *)
(* of <<vector, weight>>, a vector a sequence of floats, indices 1-based.   *)

\* line 113: points.iter().map(|x| x.1 as f64).sum()
RECURSIVE total_weight_of(_)
total_weight_of(points) ==
    IF points = <<>> THEN Fin(0)
    ELSE fadd(total_weight_of(SubSeq(points, 1, Len(points) - 1)),
              points[Len(points)][2])

\* lines 120-126: the checks inside the accumulation loop, in iteration order
RECURSIVE loop_error(_, _, _)
loop_error(points, dimensions, i) ==
    IF i > Len(points) THEN ""
    ELSE IF ~ge_zero(points[i][2]) THEN MsgNegative
    ELSE IF \E j \in 1..dimensions :
                ~(is_finite(points[i][1][j]) /\ ~is_nan(points[i][1][j]))
         THEN MsgCoordinate
    ELSE loop_error(points, dimensions, i + 1)

\* lines 109-126: the first failing check_argument, "" when all pass
validation_error(dimensions, points, lower_fraction, upper_fraction) ==
    IF ~(Len(points) > 0) THEN MsgEmpty
    ELSE IF ~(2 * lower_fraction[1] < lower_fraction[2]) THEN MsgLower
    ELSE IF ~(2 * upper_fraction[1] > upper_fraction[2]) THEN MsgUpper
    ELSE IF ~(dimensions > 0) THEN MsgDimensions
    ELSE IF ~gt_zero(total_weight_of(points)) THEN MsgAllZero
    ELSE IF ~is_finite(total_weight_of(points)) THEN MsgInfinite
    ELSE loop_error(points, dimensions, 1)

\* line 127: sum_values[j] over all points
RECURSIVE sum_values(_, _)
sum_values(points, j) ==
    IF points = <<>> THEN 0
    ELSE sum_values(SubSeq(points, 1, Len(points) - 1), j)
         + points[Len(points)][2][2] * points[Len(points)][1][j][2]

\* lines 128-129: sum_values_sq[j] over all points
RECURSIVE sum_values_sq(_, _)
sum_values_sq(points, j) ==
    IF points = <<>> THEN 0
    ELSE sum_values_sq(SubSeq(points, 1, Len(points) - 1), j)
         + points[Len(points)][2][2] * points[Len(points)][1][j][2]
           * points[Len(points)][1][j][2]

\* line 133
mean_of(points, j, total_weight) == Ratio(sum_values(points, j), total_weight)

\* lines 134-136: deviation[j] = sqrt(max(t, 0)); the model keeps the radicand
deviation_of(points, j, total_weight) ==
    LET t == sum_values_sq(points, j) * total_weight
             - sum_values(points, j) * sum_values(points, j)
    IN [sqrt_of |-> Ratio(IF t > 0 THEN t ELSE 0, total_weight * total_weight)]

\* line 146: the stable insertion of one pair behind every pair not above it
insert_sorted(sorted, e) ==
    LET k == Cardinality({i \in 1..Len(sorted) : sorted[i][1] <= e[1]})
    IN SubSeq(sorted, 1, k) \o <<e>> \o SubSeq(sorted, k + 1, Len(sorted))

\* a slip: the pairs are left in batch order
sort_by_skipped(pairs) == pairs

\* line 146: y.sort_by(|a, b| a.0.partial_cmp(&b.0).unwrap()), a stable sort
RECURSIVE sort_by(_)
sort_by(pairs) ==
    IF Len(pairs) <= 1 THEN pairs
    ELSE insert_sorted(sort_by(SubSeq(pairs, 1, Len(pairs) - 1)), pairs[Len(pairs)])

\* line 145: points.iter().map(|x| (x.0[j], x.1)).collect()
pairs_of(points, j) ==
    [i \in 1..Len(points) |-> <<points[i][1][j][2], points[i][2][2]>>]

\* lines 116-164 once every check has passed
statistics(dimensions, points, lower_fraction, upper_fraction) ==
    LET total_weight == total_weight_of(points)[2]
        num == <<total_weight, 2>>
        lower == <<total_weight * lower_fraction[1], lower_fraction[2]>>
        upper == <<total_weight * upper_fraction[1], upper_fraction[2]>>
        stat(j) == order_statistics(sort_by(pairs_of(points, j)), lower, num, upper)
    IN [summary_points |-> <<>>,
        relative_weight |-> <<>>,
        total_weight |-> total_weight,
        mean |-> [j \in 1..dimensions |-> mean_of(points, j, total_weight)],
        upper |-> [j \in 1..dimensions |-> stat(j).upper],
        lower |-> [j \in 1..dimensions |-> stat(j).lower],
        median |-> [j \in 1..dimensions |-> stat(j).median],
        deviation |-> [j \in 1..dimensions |-> deviation_of(points, j, total_weight)]]

from_points(dimensions, points, lower_fraction, upper_fraction) ==
    LET e == validation_error(dimensions, points, lower_fraction, upper_fraction)
    IN IF e # "" THEN Err(e)
       ELSE Ok(statistics(dimensions, points, lower_fraction, upper_fraction))

from_references(dimensions, points, lower_fraction, upper_fraction) ==
    LET e == validation_error(dimensions, points, lower_fraction, upper_fraction)
    IN IF e # "" THEN Err(e)
       ELSE Ok(statistics(dimensions, points, lower_fraction, upper_fraction))

-----------------------------------------------------------------------------
(* Program constants *)

MAX_NUMBER_PER_DIMENSION == 5

\* LOWER_FRACTION = 0.1 and UPPER_FRACTION = 0.9, lines 40-42
LOWER_FRACTION == <<1, 10>>

UPPER_FRACTION == <<9, 10>>

-----------------------------------------------------------------------------
(* SampleSummary::new and add_typical, lines 68-93 *)

new(total_weight, summary_points, relative_weight, median, mean, upper, lower, deviation) ==
    [total_weight |-> total_weight,
     summary_points |-> summary_points,
     relative_weight |-> relative_weight,
     median |-> median,
     mean |-> mean,
     upper |-> upper,
     lower |-> lower,
     deviation |-> deviation]

\* a slip: only the points are replaced
add_typical_points_only(self, summary_points, relative_weight) ==
    [self EXCEPT !.summary_points = summary_points]

add_typical(self, summary_points, relative_weight) ==
    [self EXCEPT !.summary_points = summary_points,
                 !.relative_weight = relative_weight]

-----------------------------------------------------------------------------
(* summarize, lines 229-258, and multi_summarize_ref, lines 261-296.  A     *)
(* center of summarize is [representative, weight], a center of             *)
(* multi_summarize_ref is [representatives, weight] with representatives a  *)
(* nonempty sequence of <<vector, weight>>; center weights are integers.    *)

Min(a, b) == IF a < b THEN a ELSE b

\* lines 239 and 273
max_allowed(dimensions, max_number) ==
    Min(dimensions * MAX_NUMBER_PER_DIMENSION, max_number)

\* a slip: the collaborator is asked for typical points whatever max_number is
wants_typical_always(max_number) == TRUE

\* lines 238 and 272: if max_number > 0
wants_typical(max_number) == max_number > 0

\* lines 247 and 284: one center put behind every center not lighter than it
insert_center(sorted, c) ==
    LET k == Cardinality({i \in 1..Len(sorted) : sorted[i].weight >= c.weight})
    IN SubSeq(sorted, 1, k) \o <<c>> \o SubSeq(sorted, k + 1, Len(sorted))

\* lines 247 and 284: list.sort_by(|o1, o2| o2.weight().partial_cmp(&o1.weight()).unwrap())
RECURSIVE sort_centers(_)
sort_centers(centers) ==
    IF Len(centers) <= 1 THEN centers
    ELSE insert_center(sort_centers(SubSeq(centers, 1, Len(centers) - 1)),
                       centers[Len(centers)])

\* lines 250 and 287: list.iter().map(|x| x.weight()).sum()
RECURSIVE center_sum(_)
center_sum(centers) ==
    IF centers = <<>> THEN 0
    ELSE center_sum(SubSeq(centers, 1, Len(centers) - 1)) + centers[Len(centers)].weight

\* a slip: the collaborator's error is dropped and the statistics returned
summarize_swallows(self, returned) ==
    IF returned.kind = "Err" THEN Ok(self)
    ELSE LET sorted == sort_centers(returned.value[1])
         IN Ok(add_typical(self,
                  [i \in 1..Len(sorted) |-> sorted[i].representative],
                  [i \in 1..Len(sorted) |->
                      fdiv(sorted[i].weight, center_sum(sorted))]))

\* lines 246-257: what summarize returns once the collaborator has returned
summarize_typical(self, returned) ==
    IF returned.kind = "Err" THEN returned
    ELSE LET sorted == sort_centers(returned.value[1])
         IN Ok(add_typical(self,
                  [i \in 1..Len(sorted) |-> sorted[i].representative],
                  [i \in 1..Len(sorted) |->
                      fdiv(sorted[i].weight, center_sum(sorted))]))

\* lines 283-295: what multi_summarize_ref returns once the collaborator has returned
multi_summarize_typical(self, returned) ==
    IF returned.kind = "Err" THEN returned
    ELSE LET sorted == sort_centers(returned.value[1])
         IN Ok(add_typical(self,
                  [i \in 1..Len(sorted) |-> sorted[i].representatives[1][1]],
                  [i \in 1..Len(sorted) |->
                      fdiv(sorted[i].weight, center_sum(sorted))]))

\* lines 235-236: the dimension read off the first point, then the statistics
summarize_statistics(points) ==
    IF points = <<>> THEN Panic("index out of bounds")
    ELSE from_points(Len(points[1][1]), points, LOWER_FRACTION, UPPER_FRACTION)

\* lines 269-270
multi_summarize_statistics(points) ==
    IF points = <<>> THEN Panic("index out of bounds")
    ELSE from_references(Len(points[1][1]), points, LOWER_FRACTION, UPPER_FRACTION)

-----------------------------------------------------------------------------
(* Bounds and input domains *)

\* longest sorted sequence handed to pick on its own
MaxPickLen == 4

\* largest weight in such a sequence
MaxPickWeight == 2

\* largest target, in half units of weight
MaxTarget == 13

\* longest batch of well-formed points handed to the statistics routines
MaxLen == 3

\* longest batch of points that may break a precondition, and longest batch
\* handed to summarize / multi_summarize_ref
MaxBatch == 2

\* largest max_number below the per-dimension cap
MaxNumber == 3

\* most centers the clustering collaborator returns
MaxCenters == 3

\* longest list handed to SampleSummary::new or add_typical
MaxTypical == 2

Unused == <<>>

SeqsUpTo(S, n) == UNION {[1..k -> S] : k \in 0..n}

\* the sequences handed to pick on its own: sorted ascending by value (the
\* i-th value is 10 * (i - 1)), weights >= 0, never empty
PickSequences ==
    UNION {{[i \in 1..k |-> <<10 * (i - 1), w[i]>>] : w \in [1..k -> 0..MaxPickWeight]} :
           k \in 1..MaxPickLen}

\* the targets handed to pick on its own, in half units of weight from below
\* zero to above every total
PickTargets == {<<n, 2>> : n \in (-1)..MaxTarget}

\* the sorted pairs and the three targets of the batch
\* [([0.0], 1.0), ([10.0], 1.0)] under fractions 0.1 / 0.9
ExampleSequence == <<(<<0, 1>>), (<<10, 1>>)>>

ExampleTargets ==
    <<(<<2 * LOWER_FRACTION[1], LOWER_FRACTION[2]>>), (<<2, 2>>),
      (<<2 * UPPER_FRACTION[1], UPPER_FRACTION[2]>>)>>

\* a <= b on rationals with positive denominators
RLe(a, b) == a[1] * b[2] <= b[1] * a[2]

TargetTriples ==
    {t \in PickTargets \X PickTargets \X PickTargets : RLe(t[1], t[2]) /\ RLe(t[2], t[3])}
    \cup {ExampleTargets}

\* the values a lower_fraction and an upper_fraction are drawn from
LowerFractions == {<<-1, 10>>, LOWER_FRACTION, <<4, 10>>, <<1, 2>>}

UpperFractions == {<<1, 2>>, <<6, 10>>, UPPER_FRACTION, <<11, 10>>}

\* well-formed one-dimensional points: finite coordinates, weights >= 0
GoodPoints == {<<(<<Fin(x)>>), Fin(w)>> : x \in {0, 5, 10}, w \in {0, 1, 2}}

\* one-dimensional points that may break a precondition
AnyPoints ==
    {<<(<<x>>), w>> : x \in {Fin(0), Fin(10), NaN, PosInf},
                      w \in {Fin(-1), Fin(0), Fin(1), PosInf, NaN}}

\* two-dimensional points
PlanePoints ==
    {<<(<<x1, x2>>), w>> : x1 \in {Fin(0), Fin(10)}, x2 \in {Fin(5), NaN},
                           w \in {Fin(-1), Fin(1), Fin(2)}}

StatBatches ==
    SeqsUpTo(GoodPoints, MaxLen) \cup SeqsUpTo(AnyPoints, MaxBatch)
    \cup SeqsUpTo(PlanePoints, MaxBatch)

\* the batches handed to summarize and multi_summarize_ref: one-dimensional
\* points that may break a precondition, two-dimensional points, and a point
\* of no dimension
LinePoints ==
    {<<(<<x>>), w>> : x \in {Fin(0), Fin(10), NaN}, w \in {Fin(-1), Fin(0), Fin(2)}}

SummarizeBatches ==
    SeqsUpTo(LinePoints, MaxBatch)
    \cup SeqsUpTo({<<(<<Fin(x), Fin(5)>>), Fin(1)>> : x \in {0, 10}}, MaxBatch)
    \cup {<<(<<(<<>>), Fin(1)>>)>>}

\* max_number: up to MaxNumber, and one value above the cap of one dimension
MaxNumbers == (0..MaxNumber) \cup {MAX_NUMBER_PER_DIMENSION + 1}

\* the weights of the centers the collaborator returns
CenterWeights == {0, 1, 2}

\* the two vectors of dimension d the collaborator picks representatives from
NearVector(d) == [j \in 1..d |-> Fin(0)]

FarVector(d) == [j \in 1..d |-> Fin(10)]

\* what single_centroid_cluster_weighted_vec_with_distance_over_slices may
\* return for a cap: an error, or at most cap centers with weights >= 0
SingleCentroidReturns(cap, d) ==
    {Err("clustering failed")}
    \cup {Ok(l) : l \in SeqsUpTo([representative : {NearVector(d), FarVector(d)},
                                  weight : CenterWeights],
                                 Min(cap, MaxCenters))}

\* what multi_cluster_as_weighted_ref may return for a cap
MultiClusterReturns(cap, d) ==
    {Err("clustering failed")}
    \cup {Ok(l) : l \in SeqsUpTo([representatives :
                                      {<<(<<NearVector(d), 1>>)>>,
                                       <<(<<FarVector(d), 1>>), (<<NearVector(d), 1>>)>>},
                                  weight : CenterWeights],
                                 Min(cap, MaxCenters))}

\* the arguments SampleSummary::new and add_typical are called with
TypicalPoints == SeqsUpTo({NearVector(1), FarVector(1)}, MaxTypical)

TypicalWeights == SeqsUpTo({fdiv(1, 2), fdiv(1, 1)}, MaxTypical)

StatisticValues == {<<0>>, <<10>>}

\* D of a batch: the length of its first point's vector
BatchDim(points) == IF points = <<>> THEN 1 ELSE Len(points[1][1])

-----------------------------------------------------------------------------
(* SpecPick: pick on its own.  The initial states hold a sorted sequence    *)
(* and three nondecreasing targets; Scan runs the chained calls of lines    *)
(* 147-152 and, next to them, three calls that each rescan from (0, 0).     *)

InitPick ==
    /\ pc = "ready"
    /\ y \in PickSequences \cup {ExampleSequence}
    /\ targets \in TargetTriples
    /\ scan = <<>>
    /\ call = Unused /\ summary = <<>> /\ result = NoResult
    /\ clustering = <<>>

Scan ==
    /\ pc = "ready"
    /\ pc' = "scanned"
    /\ scan' = <<[chained |-> order_statistics(y, targets[1], targets[2], targets[3]),
                  rescan |-> [k \in 1..3 |-> pick(y, targets[k], 0, 0)]]>>
    /\ UNCHANGED <<call, summary, result, clustering, y, targets>>

NextPick == Scan

SpecPick == InitPick /\ [][NextPick]_vars

-----------------------------------------------------------------------------
(* SpecStats: the statistics routines called directly.                      *)

InitStats ==
    /\ pc = "ready"
    /\ \E points \in StatBatches, lf \in LowerFractions, uf \in UpperFractions :
         \E d \in 0..BatchDim(points) :
            call = [dimensions |-> d, points |-> points,
                    lower_fraction |-> lf, upper_fraction |-> uf]
    /\ summary = <<>> /\ result = NoResult
    /\ clustering = <<>>
    /\ y = <<>> /\ targets = <<>> /\ scan = <<>>

FromPoints ==
    /\ pc = "ready"
    /\ pc' = "from_points"
    /\ result' = from_points(call.dimensions, call.points,
                             call.lower_fraction, call.upper_fraction)
    /\ summary' = result'.value
    /\ UNCHANGED <<call, clustering, y, targets, scan>>

FromReferences ==
    /\ pc = "ready"
    /\ pc' = "from_references"
    /\ result' = from_references(call.dimensions, call.points,
                                 call.lower_fraction, call.upper_fraction)
    /\ summary' = result'.value
    /\ UNCHANGED <<call, clustering, y, targets, scan>>

NextStats == FromPoints \/ FromReferences

SpecStats == InitStats /\ [][NextStats]_vars

-----------------------------------------------------------------------------
(* Spec: summarize and multi_summarize_ref.  The initial states hold the    *)
(* arguments of one call; pc is the call's position: "called", then         *)
(* "statistics" once the statistics are computed, then "done".  clustering  *)
(* holds one record per invocation of the collaborator: the cap it was      *)
(* given and what it returned.                                              *)

Init ==
    /\ pc = "called"
    /\ call \in [fn : {"summarize", "multi_summarize_ref"},
                 points : SummarizeBatches,
                 max_number : MaxNumbers]
    /\ summary = <<>> /\ result = NoResult /\ clustering = <<>>
    /\ y = <<>> /\ targets = <<>> /\ scan = <<>>

\* lines 235-236: a panic or a validation error ends the call
SummarizeStatistics ==
    /\ pc = "called" /\ call.fn = "summarize"
    /\ LET r == summarize_statistics(call.points)
       IN IF r.kind = "Ok"
          THEN pc' = "statistics" /\ summary' = r.value /\ result' = result
          ELSE pc' = "done" /\ summary' = <<>> /\ result' = r
    /\ UNCHANGED <<call, clustering, y, targets, scan>>

\* lines 238 and 257: max_number == 0 returns the statistics as they are
SummarizeReturn ==
    /\ pc = "statistics" /\ call.fn = "summarize"
    /\ ~wants_typical(call.max_number)
    /\ pc' = "done"
    /\ result' = Ok(summary[1])
    /\ UNCHANGED <<call, summary, clustering, y, targets, scan>>

\* lines 238-257: the collaborator is invoked, then its centers are attached
SummarizeCluster ==
    /\ pc = "statistics" /\ call.fn = "summarize"
    /\ wants_typical(call.max_number)
    /\ LET dimensions == Len(call.points[1][1])
           cap == max_allowed(dimensions, call.max_number)
       IN \E returned \in SingleCentroidReturns(cap, dimensions) :
            /\ clustering' = Append(clustering, [max_allowed |-> cap, returned |-> returned])
            /\ result' = summarize_typical(summary[1], returned)
            /\ summary' = result'.value
    /\ pc' = "done"
    /\ UNCHANGED <<call, y, targets, scan>>

\* lines 269-270
MultiSummarizeStatistics ==
    /\ pc = "called" /\ call.fn = "multi_summarize_ref"
    /\ LET r == multi_summarize_statistics(call.points)
       IN IF r.kind = "Ok"
          THEN pc' = "statistics" /\ summary' = r.value /\ result' = result
          ELSE pc' = "done" /\ summary' = <<>> /\ result' = r
    /\ UNCHANGED <<call, clustering, y, targets, scan>>

\* lines 272 and 295
MultiSummarizeReturn ==
    /\ pc = "statistics" /\ call.fn = "multi_summarize_ref"
    /\ ~wants_typical(call.max_number)
    /\ pc' = "done"
    /\ result' = Ok(summary[1])
    /\ UNCHANGED <<call, summary, clustering, y, targets, scan>>

\* lines 272-295
MultiSummarizeCluster ==
    /\ pc = "statistics" /\ call.fn = "multi_summarize_ref"
    /\ wants_typical(call.max_number)
    /\ LET dimensions == Len(call.points[1][1])
           cap == max_allowed(dimensions, call.max_number)
       IN \E returned \in MultiClusterReturns(cap, dimensions) :
            /\ clustering' = Append(clustering, [max_allowed |-> cap, returned |-> returned])
            /\ result' = multi_summarize_typical(summary[1], returned)
            /\ summary' = result'.value
    /\ pc' = "done"
    /\ UNCHANGED <<call, y, targets, scan>>

Next ==
    \/ SummarizeStatistics
    \/ SummarizeReturn
    \/ SummarizeCluster
    \/ MultiSummarizeStatistics
    \/ MultiSummarizeReturn
    \/ MultiSummarizeCluster

Spec == Init /\ [][Next]_vars

-----------------------------------------------------------------------------
(* SpecAggregate: a SampleSummary under its public operations.  One of new, *)
(* from_points and from_references builds it, then add_typical is called    *)
(* any number of times.  After new and add_typical, call holds the two      *)
(* lists the operation was given.                                           *)

InitAggregate ==
    /\ pc = "ready"
    /\ call \in [dimensions : {1}, points : SeqsUpTo(GoodPoints, 1),
                 lower_fraction : {LOWER_FRACTION}, upper_fraction : {UPPER_FRACTION}]
    /\ summary = <<>> /\ result = NoResult /\ clustering = <<>>
    /\ y = <<>> /\ targets = <<>> /\ scan = <<>>

New ==
    /\ pc = "ready"
    /\ \E summary_points \in TypicalPoints, relative_weight \in TypicalWeights,
          median \in StatisticValues, upper \in StatisticValues :
          /\ summary' = <<new(1, summary_points, relative_weight, median,
                              <<Ratio(5, 1)>>, upper, <<0>>,
                              <<[sqrt_of |-> Ratio(25, 1)]>>)>>
          /\ call' = [summary_points |-> summary_points,
                      relative_weight |-> relative_weight]
    /\ pc' = "new"
    /\ UNCHANGED <<result, clustering, y, targets, scan>>

AddTypical ==
    /\ pc \in {"new", "from_points", "from_references", "add_typical"}
    /\ summary # <<>>
    /\ \E summary_points \in TypicalPoints, relative_weight \in TypicalWeights :
          /\ summary' = <<add_typical(summary[1], summary_points, relative_weight)>>
          /\ call' = [summary_points |-> summary_points,
                      relative_weight |-> relative_weight]
    /\ pc' = "add_typical"
    /\ UNCHANGED <<result, clustering, y, targets, scan>>

NextAggregate == New \/ FromPoints \/ FromReferences \/ AddTypical

SpecAggregate == InitAggregate /\ [][NextAggregate]_vars

-----------------------------------------------------------------------------
(* Claims about pick (SpecPick) *)

\* the sum of the weights at the 0-based indices 0..i of ys
RECURSIVE CumulativeWeight(_, _)
CumulativeWeight(ys, i) ==
    IF i < 0 THEN 0 ELSE CumulativeWeight(ys, i - 1) + ys[i + 1][2]

\* the 0-based indices whose inclusive cumulative weight is >= t
Reaching(ys, t) ==
    {i \in 0..(Len(ys) - 1) : CumulativeWeight(ys, i) * t[2] >= t[1]}

SetMin(S) == CHOOSE m \in S : \A n \in S : m <= n

\* what the claim says pick(ys, t, 0, 0) returns
FirstReaching(ys, t) ==
    LET i == IF Reaching(ys, t) # {} THEN SetMin(Reaching(ys, t)) ELSE Len(ys) - 1
    IN <<i, CumulativeWeight(ys, i - 1)>>

\* C8: on a nonempty sequence sorted by value with weights >= 0, pick started
\* at (0, 0) returns the smallest index whose inclusive cumulative weight is
\* >= the target, or the last index when none reaches it, with the running
\* weight equal to the weight strictly before that index; a target within the
\* total weight is never undershot; and the batch [([0.0],1.0),([10.0],1.0)]
\* under 0.1 / 0.9 gives lower = 0.0, median = 0.0, upper = 10.0.
C8_PickFirstReaching ==
    pc = "scanned" =>
        /\ \A k \in 1..3 :
              /\ scan[1].rescan[k] = FirstReaching(y, targets[k])
              /\ scan[1].rescan[k][1] <= Len(y) - 1
              /\ (targets[k][1] <= CumulativeWeight(y, Len(y) - 1) * targets[k][2]
                    => CumulativeWeight(y, scan[1].rescan[k][1]) * targets[k][2]
                         >= targets[k][1])
        /\ (y = ExampleSequence /\ targets = ExampleTargets
              => /\ scan[1].chained.lower = 0
                 /\ scan[1].chained.median = 0
                 /\ scan[1].chained.upper = 10)

\* C8 witness: the scenario batch has been scanned, the upper target having
\* moved the cursor to the second element
C8_Witness ==
    /\ pc = "scanned"
    /\ y = ExampleSequence
    /\ targets = ExampleTargets
    /\ scan[1].rescan[3] = <<1, 1>>
    /\ scan[1].chained.upper = 10

\* C9: for nondecreasing targets the three chained calls return the indices
\* and running weights of three calls that each start at (0, 0), and neither
\* the cursor nor the accumulated weight decreases from one call to the next.
C9_ChainedEqualsRescan ==
    pc = "scanned" =>
        /\ scan[1].chained.first = scan[1].rescan[1]
        /\ scan[1].chained.second = scan[1].rescan[2]
        /\ scan[1].chained.third = scan[1].rescan[3]
        /\ scan[1].chained.first[1] <= scan[1].chained.second[1]
        /\ scan[1].chained.second[1] <= scan[1].chained.third[1]
        /\ scan[1].chained.first[2] <= scan[1].chained.second[2]
        /\ scan[1].chained.second[2] <= scan[1].chained.third[2]

\* C9 witness: each of the three calls moved the cursor on from where the
\* previous one left it, carrying a positive running weight
C9_Witness ==
    /\ pc = "scanned"
    /\ 0 < scan[1].chained.first[1]
    /\ scan[1].chained.first[1] < scan[1].chained.second[1]
    /\ scan[1].chained.second[1] < scan[1].chained.third[1]
    /\ 0 < scan[1].chained.first[2]
    /\ scan[1].chained.first[2] < scan[1].chained.second[2]

-----------------------------------------------------------------------------
(* Claims about the statistics routines (SpecStats) *)

Returned == pc \in {"from_points", "from_references"}

\* the precondition a message reports
Category(msg) ==
    CASE msg = MsgEmpty -> "empty"
      [] msg = MsgLower -> "lower_fraction"
      [] msg = MsgUpper -> "upper_fraction"
      [] msg = MsgDimensions -> "dimensions"
      [] msg = MsgNegative -> "weight"
      [] msg \in {MsgAllZero, MsgInfinite} -> "total_weight"
      [] msg = MsgCoordinate -> "coordinate"
      [] OTHER -> "none"

\* the first violated precondition in the order the claim gives
ClaimedFirstViolation(c) ==
    IF Len(c.points) = 0 THEN "empty"
    ELSE IF ~(2 * c.lower_fraction[1] < c.lower_fraction[2]) THEN "lower_fraction"
    ELSE IF ~(2 * c.upper_fraction[1] > c.upper_fraction[2]) THEN "upper_fraction"
    ELSE IF ~(c.dimensions > 0) THEN "dimensions"
    ELSE IF \E i \in 1..Len(c.points) : ~ge_zero(c.points[i][2]) THEN "weight"
    ELSE IF ~(is_finite(total_weight_of(c.points)) /\ gt_zero(total_weight_of(c.points)))
         THEN "total_weight"
    ELSE IF \E i \in 1..Len(c.points), j \in 1..c.dimensions : ~is_finite(c.points[i][1][j])
         THEN "coordinate"
    ELSE "none"

\* C1: from_points and from_references report the first violated precondition
\* in the order: batch nonempty, lower_fraction < 0.5, upper_fraction > 0.5,
\* dimensions > 0, every weight >= 0, total weight finite and > 0, every
\* coordinate finite; and a violated precondition returns no SampleSummary.
C1_ValidationOrder ==
    Returned =>
        /\ Category(result.error) = ClaimedFirstViolation(call)
        /\ (ClaimedFirstViolation(call) # "none" => result.kind = "Err" /\ summary = <<>>)

\* C1, the part the code keeps: the four checks on the arguments come first
\* and in the claimed order, some error is reported exactly when some
\* precondition is violated, and an error returns no SampleSummary.
C1_ArgumentChecksFirst ==
    Returned =>
        /\ (ClaimedFirstViolation(call)
              \in {"empty", "lower_fraction", "upper_fraction", "dimensions"}
              => Category(result.error) = ClaimedFirstViolation(call))
        /\ (ClaimedFirstViolation(call) # "none" <=> result.kind = "Err")
        /\ (result.kind = "Err" => summary = <<>>)

\* C3: every summary from_points / from_references returns has
\* lower[j] <= median[j] <= upper[j] in every dimension j.
C3_OrderedStatistics ==
    Returned /\ result.kind = "Ok" =>
        \A j \in 1..call.dimensions :
            /\ summary[1].lower[j] <= summary[1].median[j]
            /\ summary[1].median[j] <= summary[1].upper[j]

\* C3 witness: a batch given out of order, with a zero-weight point, a
\* negative lower_fraction and an upper_fraction above 1, returned with three
\* different order statistics
C3_Witness ==
    /\ pc = "from_references"
    /\ result.kind = "Ok"
    /\ call.lower_fraction[1] < 0
    /\ call.upper_fraction[1] > call.upper_fraction[2]
    /\ Len(call.points) = 3
    /\ call.points[1][1][1][2] > call.points[2][1][1][2]
    /\ \E i \in 1..Len(call.points) : call.points[i][2] = Fin(0)
    /\ summary[1].lower[1] < summary[1].upper[1]

C3_WitnessStrict ==
    /\ pc = "from_points"
    /\ result.kind = "Ok"
    /\ summary[1].lower[1] < summary[1].median[1]
    /\ summary[1].median[1] < summary[1].upper[1]

-----------------------------------------------------------------------------
(* Claims about summarize and multi_summarize_ref (Spec) *)

\* a batch as the data model wants it: nonempty, of positive dimension, every
\* weight finite and >= 0, positive total weight, every coordinate finite
ValidBatch(points) ==
    /\ points # <<>>
    /\ Len(points[1][1]) > 0
    /\ \A i \in 1..Len(points) :
          /\ is_finite(points[i][2]) /\ points[i][2][2] >= 0
          /\ \A j \in 1..Len(points[i][1]) : is_finite(points[i][1][j])
    /\ \E i \in 1..Len(points) : points[i][2][2] > 0

\* D, read off the first point
Dimension == Len(call.points[1][1])

\* the centers the collaborator returned
Centers == clustering[1].returned.value[1]

FirstRepresentative(c) ==
    IF call.fn = "summarize" THEN c.representative ELSE c.representatives[1][1]

\* comparisons on relative weights: all false on NaN
RwGe0(x) == x[1] = "fin" /\ x[2] >= 0

RwGe(a, b) == a[1] = "fin" /\ b[1] = "fin" /\ a[2] * b[3] >= b[2] * a[3]

RECURSIVE RwSum(_)
RwSum(rw) ==
    IF rw = <<>> THEN <<0, 1>>
    ELSE LET r == RwSum(SubSeq(rw, 1, Len(rw) - 1))
             x == rw[Len(rw)]
         IN Ratio(r[1] * x[3] + x[2] * r[2], r[2] * x[3])

RwSumIsOne(rw) ==
    /\ \A i \in 1..Len(rw) : rw[i][1] = "fin"
    /\ RwSum(rw) = <<1, 1>>

ClusteredOk == pc = "done" /\ result.kind = "Ok" /\ call.max_number > 0

\* C2: summarize and multi_summarize_ref on an empty batch return the
\* empty-batch validation error as an Err value, produce no SampleSummary and
\* invoke no clustering.
C2_EmptyBatchIsError ==
    pc = "done" /\ call.points = <<>> =>
        /\ result.kind = "Err"
        /\ result.error = MsgEmpty
        /\ result.value = <<>>
        /\ clustering = <<>>

\* C4: with max_number > 0 and k centers returned under the cap
\* min(D * 5, max_number), the summary has k summary points and k relative
\* weights, k is within the cap, every relative weight is >= 0 and the
\* relative weights sum to 1.
C4_TypicalWeightsNormalised ==
    ClusteredOk =>
        /\ clustering[1].max_allowed
             = Min(Dimension * MAX_NUMBER_PER_DIMENSION, call.max_number)
        /\ Len(result.value[1].summary_points) = Len(Centers)
        /\ Len(result.value[1].relative_weight) = Len(Centers)
        /\ Len(Centers) <= Min(Dimension * MAX_NUMBER_PER_DIMENSION, call.max_number)
        /\ \A i \in 1..Len(Centers) : RwGe0(result.value[1].relative_weight[i])
        /\ (Len(Centers) > 0 => RwSumIsOne(result.value[1].relative_weight))

\* C4 where the returned centers carry some weight: there the code does what
\* the claim says
C4_NormalisedWhenSumPositive ==
    ClusteredOk /\ center_sum(Centers) > 0 =>
        /\ clustering[1].max_allowed
             = Min(Dimension * MAX_NUMBER_PER_DIMENSION, call.max_number)
        /\ Len(result.value[1].summary_points) = Len(Centers)
        /\ Len(result.value[1].relative_weight) = Len(Centers)
        /\ Len(Centers) <= Min(Dimension * MAX_NUMBER_PER_DIMENSION, call.max_number)
        /\ \A i \in 1..Len(Centers) : RwGe0(result.value[1].relative_weight[i])
        /\ RwSumIsOne(result.value[1].relative_weight)

\* C5: with max_number == 0 on a valid batch the collaborator is never
\* invoked and the summary returned is the statistics alone: no summary
\* points, no relative weights, and total_weight, mean, median, lower, upper
\* and deviation as the statistics routine computed them, each of length D.
C5_StatisticsOnly ==
    pc = "done" /\ call.max_number = 0 /\ ValidBatch(call.points) =>
        /\ clustering = <<>>
        /\ result.kind = "Ok"
        /\ result.value[1].summary_points = <<>>
        /\ result.value[1].relative_weight = <<>>
        /\ \A f \in {"mean", "median", "lower", "upper", "deviation"} :
              Len(result.value[1][f]) = Dimension
        /\ result.value[1]
             = statistics(Dimension, call.points, LOWER_FRACTION, UPPER_FRACTION)

\* C5 witness: a two-point batch of two dimensions summarised with max_number 0
C5_Witness ==
    /\ pc = "done"
    /\ call.fn = "multi_summarize_ref"
    /\ call.max_number = 0
    /\ Len(call.points) = 2
    /\ Len(call.points[1][1]) = 2
    /\ result.kind = "Ok"
    /\ result.value[1].lower[1] < result.value[1].upper[1]

\* C6: the collaborator is invoked at most once and only from the position
\* where the statistics have succeeded; a statistics validation failure ends
\* the call with that error, no collaborator invoked and no SampleSummary; a
\* collaborator failure is returned unchanged, with no SampleSummary.
C6_ClusteringAfterStatistics ==
    /\ [](/\ Len(clustering) <= 1
          /\ (clustering # <<>> => pc = "done" /\ ValidBatch(call.points))
          /\ (pc = "done" /\ call.points # <<>> /\ ~ValidBatch(call.points)
                => /\ result.kind = "Err"
                   /\ result.error = validation_error(Dimension, call.points,
                                                      LOWER_FRACTION, UPPER_FRACTION)
                   /\ result.error # ""
                   /\ result.value = <<>>
                   /\ clustering = <<>>)
          /\ (pc = "done" /\ clustering # <<>> /\ clustering[1].returned.kind = "Err"
                => /\ result = clustering[1].returned
                   /\ result.value = <<>>))
    /\ [][clustering' # clustering
            => pc = "statistics" /\ summary # <<>> /\ clustering = <<>>]_vars

\* C6 witness: the statistics succeeded, the collaborator was invoked once
\* and failed, and the call returned its error
C6_Witness ==
    /\ pc = "done"
    /\ Len(clustering) = 1
    /\ clustering[1].returned.kind = "Err"
    /\ result.kind = "Err"
    /\ result.error = "clustering failed"

\* C10: with max_number > 0 and a successful clustering the relative weights
\* are in descending order whatever order the centers came in, and position
\* i holds the first representative of one center together with that
\* center's weight divided by the sum of all returned weights.
C10_DescendingPairs ==
    ClusteredOk =>
        /\ \A i \in 1..(Len(Centers) - 1) :
              RwGe(result.value[1].relative_weight[i],
                   result.value[1].relative_weight[i + 1])
        /\ \E p \in Permutations(1..Len(Centers)) :
              \A i \in 1..Len(Centers) :
                 /\ result.value[1].summary_points[i] = FirstRepresentative(Centers[p[i]])
                 /\ result.value[1].relative_weight[i]
                      = fdiv(Centers[p[i]].weight, center_sum(Centers))

\* C10 where the returned centers carry some weight: there the code does
\* what the claim says
C10_DescendingWhenSumPositive ==
    ClusteredOk /\ center_sum(Centers) > 0 =>
        /\ \A i \in 1..(Len(Centers) - 1) :
              RwGe(result.value[1].relative_weight[i],
                   result.value[1].relative_weight[i + 1])
        /\ \E p \in Permutations(1..Len(Centers)) :
              \A i \in 1..Len(Centers) :
                 /\ result.value[1].summary_points[i] = FirstRepresentative(Centers[p[i]])
                 /\ result.value[1].relative_weight[i]
                      = fdiv(Centers[p[i]].weight, center_sum(Centers))

-----------------------------------------------------------------------------
(* Claims about the SampleSummary aggregate (SpecAggregate) *)

Built == summary # <<>> /\ pc \in {"new", "from_points", "from_references", "add_typical"}

StatisticsOf(s) == <<s.total_weight, s.mean, s.median, s.lower, s.upper, s.deviation>>

\* C7: in every state reachable through new, from_points, from_references
\* and add_typical with any arguments, summary_points and relative_weight
\* have the same length, and construction leaves both lists empty.
C7_LengthsAlwaysEqual ==
    Built =>
        /\ Len(summary[1].summary_points) = Len(summary[1].relative_weight)
        /\ (pc # "add_typical"
              => summary[1].summary_points = <<>> /\ summary[1].relative_weight = <<>>)

\* C7 as amended: from_points and from_references leave both lists empty;
\* new stores the two lists it is given and add_typical replaces both lists
\* by the two it is given, so the lengths are equal whenever the lists given
\* last had equal lengths; add_typical leaves total_weight, mean, median,
\* lower, upper and deviation unchanged.
C7_ListsReplacedTogether ==
    /\ [](Built =>
            /\ (pc \in {"from_points", "from_references"}
                  => summary[1].summary_points = <<>> /\ summary[1].relative_weight = <<>>)
            /\ (pc \in {"new", "add_typical"}
                  => /\ summary[1].summary_points = call.summary_points
                     /\ summary[1].relative_weight = call.relative_weight
                     /\ (Len(call.summary_points) = Len(call.relative_weight)
                           => Len(summary[1].summary_points)
                                = Len(summary[1].relative_weight))))
    /\ [][pc' = "add_typical" /\ summary # <<>>
            => StatisticsOf(summary'[1]) = StatisticsOf(summary[1])]_vars

\* C7 witness: add_typical has replaced two nonempty lists of a summary built
\* by from_points with two other lists of equal length
C7_Witness ==
    /\ pc = "add_typical"
    /\ summary # <<>>
    /\ result.kind = "Ok"
    /\ result.value[1].summary_points = <<>>
    /\ Len(summary[1].summary_points) = 2
    /\ Len(summary[1].relative_weight) = 2
    /\ StatisticsOf(summary[1]) = StatisticsOf(result.value[1])

====
